---- MODULE Spec2Model ----
(***************************************************************************)
(* lib/features.js of fxa-auth-server: the cohort sampler (isSampledUser)  *)
(* and the four feature-gate predicates built on it.                       *)
(*                                                                         *)
(* Representation.                                                         *)
(*  - JavaScript values true / false / undefined are the strings T, F and  *)
(*    Undefined; a call that throws has the result TypeError.              *)
(*  - An optional property is a sequence: <<>> when absent, <<v>> when     *)
(*    present.                                                             *)
(*  - Text made of hexadecimal characters (a digest, a hex uid) is the     *)
(*    sequence of its digit values 0..15, first character first.           *)
(*  - A non-negative integer is the sequence of its base-16 digits, most   *)
(*    significant first, without leading zeros (zero is <<>>): the values  *)
(*    handled by the sampler reach 2^52, beyond the model checker's        *)
(*    integers.                                                            *)
(*  - A sample rate and a cohort value are exact fractions [num, den];     *)
(*    the rounding of IEEE doubles is not modelled.                        *)
(*  - A regular expression is the set of the e-mail addresses it accepts.  *)
(*  - Each exported function is synchronous, so a call is one action; the  *)
(*    order of what it evaluates is kept in `trace`.                       *)
(***************************************************************************)
EXTENDS Integers, Sequences, FiniteSets, TLC

VARIABLES
  config,   \* the gate configuration captured by the module factory
  sha1,     \* the digest crypto computes for each (uid text, key)
  call,     \* the last call of an exported function: its name and arguments
  result,   \* what that call returned (or TypeError when it threw)
  trace     \* what that call evaluated, in order

vars == <<config, sha1, call, result, trace>>

----------------------------------------------------------------------------
(* Bounds of the model *)

\* number of bytes of a uid
UidLen == 1
\* sample rates are the fractions k / RateDen
RateDen == 5
\* the fractional rates explored are 1/RateDen .. MaxRateNum/RateDen
MaxRateNum == 1

----------------------------------------------------------------------------
(* JavaScript values *)

T == "true"
F == "false"
Undefined == "undefined"
TypeError == "TypeError"

Bool(b) == IF b THEN T ELSE F

\* Array(n).fill(d)
Fill(d, n) == [i \in 1..n |-> d]

\* Array.prototype.indexOf / String.prototype.indexOf, 0-based, -1 when absent
IndexOf(s, x) ==
  IF \E i \in 1..Len(s) : s[i] = x
  THEN (CHOOSE i \in 1..Len(s) : s[i] = x /\ \A j \in 1..(i - 1) : s[j] # x) - 1
  ELSE -1

\* String.prototype.substr(start), start 0-based
Substr(s, start) == SubSeq(s, start + 1, Len(s))

----------------------------------------------------------------------------
(* Non-negative integers as base-16 digit sequences *)

RECURSIVE StripZeros(_)
StripZeros(s) ==
  IF s = <<>> THEN <<>>
  ELSE IF Head(s) = 0 THEN StripZeros(Tail(s))
  ELSE s

\* parseInt(text, 16) of hexadecimal text
ParseInt16(text) == StripZeros(text)

RECURSIVE DigitsOf(_)
DigitsOf(n) == IF n = 0 THEN <<>> ELSE DigitsOf(n \div 16) \o <<n % 16>>

RECURSIVE MulCarry(_, _, _, _)
MulCarry(a, i, k, carry) ==
  IF i = 0 THEN DigitsOf(carry)
  ELSE LET v == a[i] * k + carry
       IN  MulCarry(a, i - 1, k, v \div 16) \o <<v % 16>>

\* a * k for a digit sequence a and a small natural k
MulSmall(a, k) == StripZeros(MulCarry(a, Len(a), k, 0))

NumLess(a, b) ==
  \/ Len(a) < Len(b)
  \/ /\ Len(a) = Len(b)
     /\ \E i \in 1..Len(a) :
          /\ a[i] < b[i]
          /\ \A j \in 1..(i - 1) : a[j] = b[j]


\* a variant that also accepts equal fractions (<= for <)
FracLess_OrEqual(x, y) == ~NumLess(MulSmall(x.den, y.num), MulSmall(x.num, y.den))

\* x < y for fractions x = [num: digits, den: digits], y = [num: Nat, den: Nat]
FracLess(x, y) == NumLess(MulSmall(x.num, y.den), MulSmall(x.den, y.num))

----------------------------------------------------------------------------
(* Module constants of the sampler *)

HASH_LENGTH == 40
MAX_SAFE_HEX == <<1>> \o Fill(15, 13)
MAX_SAFE_HEX_LENGTH == Len(MAX_SAFE_HEX) - IndexOf(MAX_SAFE_HEX, 15)
COHORT_DIVISOR == ParseInt16(Fill(15, MAX_SAFE_HEX_LENGTH))

----------------------------------------------------------------------------
(* Values the calls are made with *)

\* a uid is a Buffer (its bytes) or a String (its text)
BufferUid(bytes) == [isBuffer |-> TRUE, bytes |-> bytes, text |-> <<>>]
StringUid(text) == [isBuffer |-> FALSE, bytes |-> <<>>, text |-> text]

RECURSIVE ToStringHex(_)
\* Buffer.prototype.toString('hex')
ToStringHex(bytes) ==
  IF bytes = <<>> THEN <<>>
  ELSE <<Head(bytes) \div 16, Head(bytes) % 16>> \o ToStringHex(Tail(bytes))

\* Buffer.alloc(UidLen, 0xff), the same uid as hex text, and a uid of '7's
Uids ==
  { BufferUid(Fill(255, UidLen)),
    StringUid(ToStringHex(Fill(255, UidLen))),
    StringUid(Fill(7, 2 * UidLen)) }

UidTexts == { ToStringHex(Fill(255, UidLen)), Fill(7, 2 * UidLen) }

Keys == { "lastAccessTimeUpdates", "signinConfirmation", "signinUnblock" }

MatchingEmail == "bar@mozilla.com"
OtherEmail == "test@notforce.com"
Emails == { MatchingEmail, OtherEmail }

\* a configured pattern: one that accepts nothing (/^$/), one that accepts
\* MatchingEmail only (/.+@mozilla\.com$/)
Patterns == { {}, {MatchingEmail} }
OptPatterns == { <<>> } \cup { <<p>> : p \in Patterns }

Rate(k) == [num |-> k, den |-> RateDen]
Rates == { Rate(k) : k \in ({0, RateDen} \cup 1..MaxRateNum) }

ClientLists == { <<>>, <<"wibble", "iframe">> }

\* request.payload: absent, without metricsContext, without context, or
\* with a context string
Payloads ==
  { <<>>, <<[metricsContext |-> <<>>]>> }
  \cup { <<[metricsContext |-> <<[context |-> c]>>]>> : c \in { <<>>, <<"iframe">>, <<"">> } }

Requests ==
  [ app : [isSuspiciousRequest : BOOLEAN], payload : Payloads ]

Recencies == { "day", "week" }

\* digests: 40 hexadecimal characters, a prefix character repeated and a
\* trailing window of MAX_SAFE_HEX_LENGTH characters
Digest(prefix, window) == Fill(prefix, HASH_LENGTH - Len(window)) \o window

Windows ==
  { Fill(0, MAX_SAFE_HEX_LENGTH),                  \* cohort 0
    Fill(3, MAX_SAFE_HEX_LENGTH - 1) \o <<2>>,     \* the value just below 1/5
    Fill(3, MAX_SAFE_HEX_LENGTH),                  \* cohort 1/5 exactly
    Fill(3, MAX_SAFE_HEX_LENGTH - 1) \o <<4>>,     \* the value just above 1/5
    Fill(15, MAX_SAFE_HEX_LENGTH) }                \* the largest window

Digests ==
  { Digest(0, w) : w \in Windows }
  \cup { Digest(15, Fill(0, MAX_SAFE_HEX_LENGTH)), Digest(15, Fill(15, MAX_SAFE_HEX_LENGTH)) }

HashInputs == [ uid : UidTexts, key : Keys ]

\* the digest functions explored: the constant ones, and two that tell the
\* keys and the uids apart
HashFns ==
  { [x \in HashInputs |-> d] : d \in Digests }
  \cup { [x \in HashInputs |->
            IF x.key = "signinUnblock" THEN Digest(0, Fill(15, MAX_SAFE_HEX_LENGTH))
            ELSE Digest(0, Fill(0, MAX_SAFE_HEX_LENGTH))],
         [x \in HashInputs |->
            IF x.uid = Fill(7, 2 * UidLen) THEN Digest(0, Fill(3, MAX_SAFE_HEX_LENGTH))
            ELSE Digest(15, Fill(0, MAX_SAFE_HEX_LENGTH))] }

----------------------------------------------------------------------------
(* Gate configurations *)

LastAccessConfigs ==
  [ enabled : BOOLEAN, sampleRate : Rates, enabledEmailAddresses : OptPatterns ]

ConfirmationConfigs ==
  [ enabled : BOOLEAN, sample_rate : Rates, forcedEmailAddresses : OptPatterns,
    supportedClients : ClientLists ]

UnblockConfigs ==
  [ enabled : BOOLEAN, sampleRate : Rates, forcedEmailAddresses : OptPatterns,
    allowedEmailAddresses : OptPatterns, supportedClients : ClientLists ]

HistoryConfigs ==
  [ enabled : BOOLEAN, ipProfiling : { <<>> } \cup { <<[enabled |-> b]>> : b \in BOOLEAN } ]

DefaultLastAccess ==
  [ enabled |-> TRUE, sampleRate |-> Rate(1), enabledEmailAddresses |-> <<{MatchingEmail}>> ]

DefaultConfirmation ==
  [ enabled |-> TRUE, sample_rate |-> Rate(1), forcedEmailAddresses |-> <<{MatchingEmail}>>,
    supportedClients |-> <<"wibble", "iframe">> ]

DefaultUnblock ==
  [ enabled |-> TRUE, sampleRate |-> Rate(1), forcedEmailAddresses |-> <<{}>>,
    allowedEmailAddresses |-> <<{MatchingEmail}>>, supportedClients |-> <<"wibble", "iframe">> ]

DefaultHistory ==
  [ enabled |-> TRUE, ipProfiling |-> <<[enabled |-> TRUE]>> ]

MkConfig(la, sc, su, sh) ==
  [ lastAccessTimeUpdates |-> la, signinConfirmation |-> sc,
    signinUnblock |-> su, securityHistory |-> sh ]

\* the configurations explored: each feature's record takes every value
\* while the records no function reads together with it keep a default
Configs ==
  { MkConfig(la, DefaultConfirmation, DefaultUnblock, DefaultHistory) : la \in LastAccessConfigs }
  \cup { MkConfig(DefaultLastAccess, sc, DefaultUnblock, DefaultHistory) : sc \in ConfirmationConfigs }
  \cup { MkConfig(DefaultLastAccess, DefaultConfirmation, su, DefaultHistory) : su \in UnblockConfigs }
  \cup { MkConfig(DefaultLastAccess,
                  [DefaultConfirmation EXCEPT !.enabled = e, !.forcedEmailAddresses = p],
                  DefaultUnblock, sh) :
           e \in BOOLEAN, p \in OptPatterns, sh \in HistoryConfigs }

----------------------------------------------------------------------------
(* What a call evaluates: the steps of `trace` *)

\* a step of a gate: the check it made and the value the check produced
Step(op, out) == [op |-> op, out |-> out, text |-> <<>>, key |-> ""]
\* a call into crypto: createHash(algorithm), update(text), update(key), digest(encoding)
HashStep(op, text, key) == [op |-> op, out |-> Undefined, text |-> text, key |-> key]

Outcome(r, t) == [result |-> r, trace |-> t]

HashOps == { "createHash", "update", "digest" }

----------------------------------------------------------------------------
(* The sampler *)


\* a variant that feeds the key before the uid
hash_KeyFirst(uid, key) ==
  [ value |-> sha1[[uid |-> uid, key |-> key]],
    trace |-> << HashStep("createHash", <<>>, "sha1"),
                 HashStep("update", <<>>, key),
                 HashStep("update", uid, ""),
                 HashStep("digest", <<>>, "hex") >> ]

hash(uid, key) ==
  [ value |-> sha1[[uid |-> uid, key |-> key]],
    trace |-> << HashStep("createHash", <<>>, "sha1"),
                 HashStep("update", uid, ""),
                 HashStep("update", <<>>, key),
                 HashStep("digest", <<>>, "hex") >> ]

\* the uid handed to hash: a Buffer is turned into its hex text
UidText(uid) == IF uid.isBuffer THEN ToStringHex(uid.bytes) ELSE uid.text


\* a variant whose window is as long as MAX_SAFE_HEX, its leading '1' included
Cohort_WiderWindow(digest) ==
  [ num |-> ParseInt16(Substr(digest, HASH_LENGTH - Len(MAX_SAFE_HEX))),
    den |-> COHORT_DIVISOR ]

\* parseInt(digest.substr(HASH_LENGTH - MAX_SAFE_HEX_LENGTH), 16) / COHORT_DIVISOR
Cohort(digest) ==
  [ num |-> ParseInt16(Substr(digest, HASH_LENGTH - MAX_SAFE_HEX_LENGTH)),
    den |-> COHORT_DIVISOR ]


\* a variant without the two fast paths
isSampledUser_NoFastPath(sampleRate, uid, key) ==
  LET h == hash(UidText(uid), key)
      cohort == Cohort(h.value)
  IN  Outcome(Bool(FracLess(cohort, sampleRate)), h.trace)

isSampledUser(sampleRate, uid, key) ==
  IF sampleRate.num = sampleRate.den THEN Outcome(T, <<>>)
  ELSE IF sampleRate.num = 0 THEN Outcome(F, <<>>)
  ELSE LET h == hash(UidText(uid), key)
           cohort == Cohort(h.value)
       IN  Outcome(Bool(FracLess(cohort, sampleRate)), h.trace)

----------------------------------------------------------------------------
(* The gates *)

\* pattern.test(email): throws when the pattern is not configured
RegExpTest(pattern, email) ==
  IF pattern = <<>> THEN TypeError ELSE Bool(email \in pattern[1])

\* request.payload && request.payload.metricsContext &&
\*   request.payload.metricsContext.context
RequestContext(request) ==
  IF request.payload = <<>> THEN <<>>
  ELSE IF request.payload[1].metricsContext = <<>> THEN <<>>
  ELSE request.payload[1].metricsContext[1].context

\* supportedClients.indexOf(context) === -1
NotSupported(supportedClients, context) ==
  context = <<>> \/ IndexOf(supportedClients, context[1]) = -1

\* a call of the sampler from a gate: the step, then what the sampler does
Sampled(t, sampleRate, uid, key) ==
  LET s == isSampledUser(sampleRate, uid, key)
  IN  Outcome(s.result, t \o <<Step("isSampledUser", s.result)>> \o s.trace)


\* a variant that wants the sampler and the pattern to agree (&& for ||)
isLastAccessTimeEnabledForUser_And(uid, email) ==
  LET c == config.lastAccessTimeUpdates
      t0 == <<Step("enabled", Bool(c.enabled))>>
  IN  IF ~c.enabled THEN Outcome(F, t0)
      ELSE LET s == Sampled(t0, c.sampleRate, uid, "lastAccessTimeUpdates")
           IN  IF s.result = F THEN s
               ELSE LET m == RegExpTest(c.enabledEmailAddresses, email)
                    IN  Outcome(m, s.trace \o <<Step("enabledEmailAddresses.test", m)>>)

isLastAccessTimeEnabledForUser(uid, email) ==
  LET c == config.lastAccessTimeUpdates
      t0 == <<Step("enabled", Bool(c.enabled))>>
  IN  IF ~c.enabled THEN Outcome(F, t0)
      ELSE LET s == Sampled(t0, c.sampleRate, uid, "lastAccessTimeUpdates")
           IN  IF s.result = T THEN s
               ELSE LET m == RegExpTest(c.enabledEmailAddresses, email)
                    IN  Outcome(m, s.trace \o <<Step("enabledEmailAddresses.test", m)>>)



\* a variant that asks the sampler first and keeps its answer for the end
isSigninConfirmationEnabledForUser_SamplerFirst(uid, email, request) ==
  LET c == config.signinConfirmation
      t0 == <<Step("enabled", Bool(c.enabled))>>
      s == Sampled(t0, c.sample_rate, uid, "signinConfirmation")
      t1 == s.trace \o <<Step("isSuspiciousRequest", Bool(request.app.isSuspiciousRequest))>>
      m == RegExpTest(c.forcedEmailAddresses, email)
      t2 == t1 \o <<Step("forcedEmailAddresses.test", m)>>
      n == NotSupported(c.supportedClients, RequestContext(request))
      t3 == t2 \o <<Step("supportedClients.indexOf", Bool(~n))>>
  IN  IF ~c.enabled THEN Outcome(F, t0)
      ELSE IF request.app.isSuspiciousRequest THEN Outcome(T, t1)
      ELSE IF m = TypeError THEN Outcome(TypeError, t2)
      ELSE IF m = T THEN Outcome(T, t2)
      ELSE IF n THEN Outcome(F, t3)
      ELSE Outcome(s.result, t3)

\* a variant that looks at the client context before the forced addresses
isSigninConfirmationEnabledForUser_ContextFirst(uid, email, request) ==
  LET c == config.signinConfirmation
      t0 == <<Step("enabled", Bool(c.enabled))>>
      t1 == t0 \o <<Step("isSuspiciousRequest", Bool(request.app.isSuspiciousRequest))>>
      n == NotSupported(c.supportedClients, RequestContext(request))
      t2 == t1 \o <<Step("supportedClients.indexOf", Bool(~n))>>
      m == RegExpTest(c.forcedEmailAddresses, email)
      t3 == t2 \o <<Step("forcedEmailAddresses.test", m)>>
  IN  IF ~c.enabled THEN Outcome(F, t0)
      ELSE IF request.app.isSuspiciousRequest THEN Outcome(T, t1)
      ELSE IF n THEN Outcome(F, t2)
      ELSE IF m = TypeError THEN Outcome(TypeError, t3)
      ELSE IF m = T THEN Outcome(T, t3)
      ELSE Sampled(t3, c.sample_rate, uid, "signinConfirmation")

isSigninConfirmationEnabledForUser(uid, email, request) ==
  LET c == config.signinConfirmation
      t0 == <<Step("enabled", Bool(c.enabled))>>
      t1 == t0 \o <<Step("isSuspiciousRequest", Bool(request.app.isSuspiciousRequest))>>
      m == RegExpTest(c.forcedEmailAddresses, email)
      t2 == t1 \o <<Step("forcedEmailAddresses.test", m)>>
      context == RequestContext(request)
      n == NotSupported(c.supportedClients, context)
      t3 == t2 \o <<Step("supportedClients.indexOf", Bool(~n))>>
  IN  IF ~c.enabled THEN Outcome(F, t0)
      ELSE IF request.app.isSuspiciousRequest THEN Outcome(T, t1)
      ELSE IF m = TypeError THEN Outcome(TypeError, t2)
      ELSE IF m = T THEN Outcome(T, t2)
      ELSE IF n THEN Outcome(F, t3)
      ELSE Sampled(t3, c.sample_rate, uid, "signinConfirmation")



\* a variant that tests the forced addresses without asking whether they are
\* configured
isSigninUnblockEnabledForUser_Unguarded(uid, email, request) ==
  LET c == config.signinUnblock
      t0 == <<Step("enabled", Bool(c.enabled))>>
      mf == RegExpTest(c.forcedEmailAddresses, email)
      t1 == t0 \o <<Step("forcedEmailAddresses.test", mf)>>
      ma == RegExpTest(c.allowedEmailAddresses, email)
      t2 == t1 \o <<Step("allowedEmailAddresses.test", ma)>>
      n == NotSupported(c.supportedClients, RequestContext(request))
      t3 == t2 \o <<Step("supportedClients.indexOf", Bool(~n))>>
  IN  IF ~c.enabled THEN Outcome(F, t0)
      ELSE IF mf = TypeError THEN Outcome(TypeError, t1)
      ELSE IF mf = T THEN Outcome(T, t1)
      ELSE IF ma = TypeError THEN Outcome(TypeError, t2)
      ELSE IF ma = T THEN Outcome(T, t2)
      ELSE IF n THEN Outcome(F, t3)
      ELSE Sampled(t3, c.sampleRate, uid, "signinUnblock")

\* a variant that never looks at the forced addresses
isSigninUnblockEnabledForUser_NoForced(uid, email, request) ==
  LET c == config.signinUnblock
      t0 == <<Step("enabled", Bool(c.enabled))>>
      ma == RegExpTest(c.allowedEmailAddresses, email)
      t2 == t0 \o <<Step("allowedEmailAddresses.test", ma)>>
      n == NotSupported(c.supportedClients, RequestContext(request))
      t3 == t2 \o <<Step("supportedClients.indexOf", Bool(~n))>>
  IN  IF ~c.enabled THEN Outcome(F, t0)
      ELSE IF ma = TypeError THEN Outcome(TypeError, t2)
      ELSE IF ma = T THEN Outcome(T, t2)
      ELSE IF n THEN Outcome(F, t3)
      ELSE Sampled(t3, c.sampleRate, uid, "signinUnblock")

isSigninUnblockEnabledForUser(uid, email, request) ==
  LET c == config.signinUnblock
      t0 == <<Step("enabled", Bool(c.enabled))>>
      forced == c.forcedEmailAddresses # <<>>
      mf == IF forced THEN RegExpTest(c.forcedEmailAddresses, email) ELSE Undefined
      t1 == t0 \o <<Step("forcedEmailAddresses.test", mf)>>
      ma == RegExpTest(c.allowedEmailAddresses, email)
      t2 == t1 \o <<Step("allowedEmailAddresses.test", ma)>>
      context == RequestContext(request)
      n == NotSupported(c.supportedClients, context)
      t3 == t2 \o <<Step("supportedClients.indexOf", Bool(~n))>>
  IN  IF ~c.enabled THEN Outcome(F, t0)
      ELSE IF mf = T THEN Outcome(T, t1)
      ELSE IF ma = TypeError THEN Outcome(TypeError, t2)
      ELSE IF ma = T THEN Outcome(T, t2)
      ELSE IF n THEN Outcome(F, t3)
      ELSE Sampled(t3, c.sampleRate, uid, "signinUnblock")


\* securityHistory.enabled && securityHistory.ipProfiling &&
\*   securityHistory.ipProfiling.enabled
IpProfilingEnabled(sh) ==
  IF ~sh.enabled THEN F
  ELSE IF sh.ipProfiling = <<>> THEN Undefined
  ELSE Bool(sh.ipProfiling[1].enabled)

\* a variant without the forced-confirmation check
canBypassSiginConfirmationIn_NoForcedCheck(cfg, email, verified, recency) ==
  LET ipProfilingEnabled == IpProfilingEnabled(cfg.securityHistory)
      t2 == <<Step("ipProfilingEnabled", ipProfilingEnabled)>>
  IN  IF ipProfilingEnabled # T THEN Outcome(ipProfilingEnabled, t2)
      ELSE IF ~verified THEN Outcome(F, t2)
      ELSE Outcome(Bool(recency = "day"), t2)

\* a variant that accepts a verified session of any recency
canBypassSiginConfirmationIn_AnyRecency(cfg, email, verified, recency) ==
  LET sc == cfg.signinConfirmation
      m == RegExpTest(sc.forcedEmailAddresses, email)
      ipProfilingEnabled == IpProfilingEnabled(cfg.securityHistory)
      t0 == <<Step("enabled", Bool(sc.enabled))>>
      t1 == IF sc.enabled THEN t0 \o <<Step("forcedEmailAddresses.test", m)>> ELSE t0
      t2 == t1 \o <<Step("ipProfilingEnabled", ipProfilingEnabled)>>
  IN  IF sc.enabled /\ m = TypeError THEN Outcome(TypeError, t1)
      ELSE IF sc.enabled /\ m = T THEN Outcome(F, t1)
      ELSE IF ipProfilingEnabled # T THEN Outcome(ipProfilingEnabled, t2)
      ELSE Outcome(Bool(verified), t2)

canBypassSiginConfirmationIn(cfg, email, verified, recency) ==
  LET sc == cfg.signinConfirmation
      sh == cfg.securityHistory
      m == RegExpTest(sc.forcedEmailAddresses, email)
      ipProfilingEnabled == IpProfilingEnabled(sh)
      t0 == <<Step("enabled", Bool(sc.enabled))>>
      t1 == IF sc.enabled THEN t0 \o <<Step("forcedEmailAddresses.test", m)>> ELSE t0
      t2 == t1 \o <<Step("ipProfilingEnabled", ipProfilingEnabled)>>
  IN  IF sc.enabled /\ m = TypeError THEN Outcome(TypeError, t1)
      ELSE IF sc.enabled /\ m = T THEN Outcome(F, t1)
      ELSE IF ipProfilingEnabled # T THEN Outcome(ipProfilingEnabled, t2)
      ELSE IF ~verified THEN Outcome(F, t2)
      ELSE Outcome(Bool(recency = "day"), t2)

\* the exported function, closed over the configuration given to the factory
canBypassSiginConfirmation(email, verified, recency) ==
  canBypassSiginConfirmationIn(config, email, verified, recency)

----------------------------------------------------------------------------
(* The state machine: the module is constructed, then called any number of *)
(* times, in any order                                                     *)

NoUid == StringUid(<<>>)
NoRequest == [app |-> [isSuspiciousRequest |-> FALSE], payload |-> <<>>]

\* a call: the arguments a function does not take keep a fixed value
Call(fn, sampleRate, uid, key, email, request, verified, recency) ==
  [ fn |-> fn, sampleRate |-> sampleRate, uid |-> uid, key |-> key, email |-> email,
    request |-> request, verified |-> verified, recency |-> recency ]

NoCall == Call("", Rate(0), NoUid, "", "", NoRequest, FALSE, "")

Init ==
  /\ config \in Configs
  /\ sha1 \in HashFns
  /\ call = NoCall
  /\ result = Undefined
  /\ trace = <<>>


\* a variant in which a call fills in the forced addresses sign-in unblock
\* lacks (forcedEmailAddresses = forcedEmailAddresses || /^$/)
Returns_Defaulting(c, o) ==
  /\ call = NoCall
  /\ call' = c
  /\ result' = o.result
  /\ trace' = o.trace
  /\ config' = [config EXCEPT !.signinUnblock.forcedEmailAddresses =
                                 IF @ = <<>> THEN <<{}>> ELSE @]
  /\ UNCHANGED sha1

\* a call is made once the previous one has been taken note of
Returns(c, o) ==
  /\ call = NoCall
  /\ call' = c
  /\ result' = o.result
  /\ trace' = o.trace
  /\ UNCHANGED <<config, sha1>>

CallIsSampledUser ==
  \E sampleRate \in Rates, uid \in Uids, key \in Keys :
    Returns(Call("isSampledUser", sampleRate, uid, key, "", NoRequest, FALSE, ""),
            isSampledUser(sampleRate, uid, key))

CallIsLastAccessTimeEnabledForUser ==
  \E uid \in Uids, email \in Emails :
    Returns(Call("isLastAccessTimeEnabledForUser", Rate(0), uid, "", email, NoRequest, FALSE, ""),
            isLastAccessTimeEnabledForUser(uid, email))

CallIsSigninConfirmationEnabledForUser ==
  \E uid \in Uids, email \in Emails, request \in Requests :
    Returns(Call("isSigninConfirmationEnabledForUser", Rate(0), uid, "", email, request, FALSE, ""),
            isSigninConfirmationEnabledForUser(uid, email, request))

CallIsSigninUnblockEnabledForUser ==
  \E uid \in Uids, email \in Emails, request \in Requests :
    Returns(Call("isSigninUnblockEnabledForUser", Rate(0), uid, "", email, request, FALSE, ""),
            isSigninUnblockEnabledForUser(uid, email, request))

CallCanBypassSiginConfirmation ==
  \E email \in Emails, verified \in BOOLEAN, recency \in Recencies :
    Returns(Call("canBypassSiginConfirmation", Rate(0), NoUid, "", email, NoRequest, verified, recency),
            canBypassSiginConfirmation(email, verified, recency))

\* the caller has its answer and the evaluation is forgotten: the spies on
\* crypto are reset before the next call
Reset ==
  /\ call # NoCall
  /\ call' = NoCall
  /\ result' = Undefined
  /\ trace' = <<>>
  /\ UNCHANGED <<config, sha1>>

Next ==
  \/ CallIsSampledUser
  \/ CallIsLastAccessTimeEnabledForUser
  \/ CallIsSigninConfirmationEnabledForUser
  \/ CallIsSigninUnblockEnabledForUser
  \/ CallCanBypassSiginConfirmation
  \/ Reset

Spec == Init /\ [][Next]_vars

----------------------------------------------------------------------------
(* What the claims speak of, stated apart from the functions above *)

Configured(pattern) == pattern # <<>>
Matches(pattern, email) == Configured(pattern) /\ email \in pattern[1]

\* the client context of a request: absent when payload, metricsContext or
\* context is absent
ClientContext(request) ==
  IF request.payload # <<>> /\ request.payload[1].metricsContext # <<>>
  THEN request.payload[1].metricsContext[1].context
  ELSE <<>>

Supported(clients, context) ==
  context # <<>> /\ \E i \in 1..Len(clients) : clients[i] = context[1]

SamplerInvoked == \E i \in 1..Len(trace) : trace[i].op = "isSampledUser"

----------------------------------------------------------------------------
\* C1: isSigninConfirmationEnabledForUser follows a fixed precedence: false
\* when the feature is disabled; otherwise true when the request is
\* suspicious; otherwise true when the email matches the forced-email
\* pattern; otherwise false when the client context is not a supported
\* client; otherwise the result of isSampledUser(sample_rate, uid,
\* 'signinConfirmation').
C1_ConfirmationPrecedence ==
  call.fn = "isSigninConfirmationEnabledForUser" =>
    LET c == config.signinConfirmation
        suspicious == call.request.app.isSuspiciousRequest
        forced == c.forcedEmailAddresses
        supported == Supported(c.supportedClients, ClientContext(call.request))
    IN  /\ ~c.enabled => result = F
        /\ c.enabled /\ suspicious => result = T
        /\ c.enabled /\ ~suspicious /\ Matches(forced, call.email) => result = T
        /\ c.enabled /\ ~suspicious /\ Configured(forced) /\ ~Matches(forced, call.email) =>
             /\ ~supported => result = F
             /\ supported =>
                  result = isSampledUser(c.sample_rate, call.uid, "signinConfirmation").result

\* C1, its case: a forced email is confirmed from an unsupported client
\* although the sampler alone would say no
C1_Witness ==
  /\ call.fn = "isSigninConfirmationEnabledForUser"
  /\ config.signinConfirmation.enabled
  /\ ~call.request.app.isSuspiciousRequest
  /\ Matches(config.signinConfirmation.forcedEmailAddresses, call.email)
  /\ ~Supported(config.signinConfirmation.supportedClients, ClientContext(call.request))
  /\ config.signinConfirmation.sample_rate = Rate(0)
  /\ result = T

\* C2: isSigninUnblockEnabledForUser follows a fixed precedence: false when
\* the feature is disabled; otherwise true when a forced-email pattern is
\* configured and matches; otherwise true when the email matches the
\* allowed-email pattern, the sampler not being invoked; otherwise false when
\* the client context is not a supported client; otherwise the result of
\* isSampledUser(sampleRate, uid, 'signinUnblock').
C2_UnblockPrecedence ==
  call.fn = "isSigninUnblockEnabledForUser" =>
    LET c == config.signinUnblock
        forced == c.forcedEmailAddresses
        allowed == c.allowedEmailAddresses
        supported == Supported(c.supportedClients, ClientContext(call.request))
    IN  /\ ~c.enabled => result = F
        /\ c.enabled /\ Matches(forced, call.email) => result = T
        /\ c.enabled /\ ~Matches(forced, call.email) /\ Matches(allowed, call.email) =>
             result = T /\ ~SamplerInvoked
        /\ c.enabled /\ ~Matches(forced, call.email)
             /\ Configured(allowed) /\ ~Matches(allowed, call.email) =>
             /\ ~supported => result = F
             /\ supported =>
                  result = isSampledUser(c.sampleRate, call.uid, "signinUnblock").result

\* C2, its case: the forced addresses decide although the allow-list, the
\* client context and the sampler would all say no
C2_Witness ==
  /\ call.fn = "isSigninUnblockEnabledForUser"
  /\ config.signinUnblock.enabled
  /\ Matches(config.signinUnblock.forcedEmailAddresses, call.email)
  /\ Configured(config.signinUnblock.allowedEmailAddresses)
  /\ ~Matches(config.signinUnblock.allowedEmailAddresses, call.email)
  /\ config.signinUnblock.sampleRate = Rate(0)
  /\ result = T

\* C3 as stated: canBypassSiginConfirmation returns false for every email
\* that matches the sign-in confirmation forced-email pattern, whatever the
\* other arguments and configuration flags.
C3_ForcedNeverBypassed ==
  call.fn = "canBypassSiginConfirmation"
    /\ Matches(config.signinConfirmation.forcedEmailAddresses, call.email)
    => result = F

\* C3 as amended: while sign-in confirmation is enabled,
\* canBypassSiginConfirmation returns false for every email that matches its
\* forced-email pattern, whatever verified, recency and the security-history
\* flags are.
C3_ForcedNeverBypassedWhileEnabled ==
  call.fn = "canBypassSiginConfirmation"
    /\ config.signinConfirmation.enabled
    /\ Matches(config.signinConfirmation.forcedEmailAddresses, call.email)
    => result = F

\* C3, its case: a forced email is refused the bypass although the four
\* bypass conditions hold
C3_Witness ==
  /\ call.fn = "canBypassSiginConfirmation"
  /\ config.signinConfirmation.enabled
  /\ Matches(config.signinConfirmation.forcedEmailAddresses, call.email)
  /\ config.securityHistory.enabled
  /\ config.securityHistory.ipProfiling = <<[enabled |-> TRUE]>>
  /\ call.verified
  /\ call.recency = "day"
  /\ result = F

\* the four conditions of a bypass
BypassConditions(cfg, verified, recency) ==
  /\ cfg.securityHistory.enabled
  /\ cfg.securityHistory.ipProfiling # <<>>
  /\ cfg.securityHistory.ipProfiling[1].enabled
  /\ verified
  /\ recency = "day"

\* C4: when the forced-confirmation check does not fire (sign-in confirmation
\* disabled, or the email not matching its forced-email pattern),
\* canBypassSiginConfirmation yields true exactly when securityHistory.enabled,
\* securityHistory.ipProfiling.enabled, verified and recency = 'day' all hold;
\* and from a true result, making any single one of the four negative makes
\* the result false.
C4_BypassConjunction ==
  call.fn = "canBypassSiginConfirmation"
    /\ \/ ~config.signinConfirmation.enabled
       \/ /\ Configured(config.signinConfirmation.forcedEmailAddresses)
          /\ ~Matches(config.signinConfirmation.forcedEmailAddresses, call.email)
    =>
    /\ result = T <=> BypassConditions(config, call.verified, call.recency)
    /\ result = T =>
         /\ canBypassSiginConfirmationIn(
              [config EXCEPT !.securityHistory.enabled = FALSE],
              call.email, call.verified, call.recency).result = F
         /\ canBypassSiginConfirmationIn(
              [config EXCEPT !.securityHistory.ipProfiling = <<[enabled |-> FALSE]>>],
              call.email, call.verified, call.recency).result = F
         /\ canBypassSiginConfirmationIn(config, call.email, FALSE, call.recency).result = F
         /\ \A r \in Recencies \ {"day"} :
              canBypassSiginConfirmationIn(config, call.email, call.verified, r).result = F

\* C4, its case: the bypass is granted with sign-in confirmation disabled
C4_Witness ==
  /\ call.fn = "canBypassSiginConfirmation"
  /\ ~config.signinConfirmation.enabled
  /\ BypassConditions(config, call.verified, call.recency)
  /\ result = T

----------------------------------------------------------------------------
(* The sampler's claims *)

HashCalls == { i \in 1..Len(trace) : trace[i].op \in HashOps }

\* the digest of the uid and key of the last call
CallDigest == sha1[[uid |-> UidText(call.uid), key |-> call.key]]

GeneralPath ==
  /\ call.fn = "isSampledUser"
  /\ call.sampleRate.num # 0
  /\ call.sampleRate.num # call.sampleRate.den

\* the last 13 of the 40 characters of a digest, as a number
TrailingValue(digest) == StripZeros(SubSeq(digest, 28, 40))
\* 0xfffffffffffff
AllF13 == Fill(15, 13)

\* value / 0xfffffffffffff < rate, = rate
BelowRate(value, rate) == NumLess(MulSmall(value, rate.den), MulSmall(AllF13, rate.num))
AtRate(value, rate) == MulSmall(value, rate.den) = MulSmall(AllF13, rate.num)

\* C5: for every uid and key, isSampledUser(1, uid, key) is true and
\* isSampledUser(0, uid, key) is false, and in both cases no hash is created,
\* updated or digested during the call.
C5_FastPaths ==
  call.fn = "isSampledUser" =>
    /\ call.sampleRate.num = call.sampleRate.den => result = T /\ HashCalls = {}
    /\ call.sampleRate.num = 0 => result = F /\ HashCalls = {}

\* C5, its case: rate 1 samples a user whose digest would give the largest
\* cohort value, and nothing is hashed
C5_Witness ==
  /\ call.fn = "isSampledUser"
  /\ call.sampleRate.num = call.sampleRate.den
  /\ TrailingValue(CallDigest) = AllF13
  /\ result = T
  /\ trace = <<>>

\* C6: for a sample rate strictly between 0 and 1, isSampledUser returns true
\* exactly when the cohort value (the last 13 hex characters of the
\* 40-character digest as an unsigned integer, divided by 0xfffffffffffff) is
\* strictly less than the rate; a cohort value equal to the rate, or above
\* it, is not sampled.
C6_StrictlyBelowRate ==
  GeneralPath =>
    /\ result = Bool(BelowRate(TrailingValue(CallDigest), call.sampleRate))
    /\ AtRate(TrailingValue(CallDigest), call.sampleRate) => result = F

\* C6, its case: a cohort value exactly equal to the rate is not sampled
C6_Witness ==
  /\ GeneralPath
  /\ AtRate(TrailingValue(CallDigest), call.sampleRate)
  /\ result = F

\* C7 as stated: for every digest, the cohort value computed by isSampledUser
\* lies in [0,1): it never reaches 1.
C7_CohortBelowOne ==
  GeneralPath => NumLess(Cohort(CallDigest).num, Cohort(CallDigest).den)

\* C7 as amended: for every digest, the cohort value computed by
\* isSampledUser lies in the closed interval [0,1]: it is never negative and
\* never exceeds 1, and it is 1 exactly when the trailing window is all 'f'.
C7_CohortAtMostOne ==
  GeneralPath =>
    /\ ~NumLess(Cohort(CallDigest).den, Cohort(CallDigest).num)
    /\ Cohort(CallDigest).den = AllF13
    /\ Cohort(CallDigest).num = Cohort(CallDigest).den <=> SubSeq(CallDigest, 28, 40) = AllF13

\* C7, its case: a digest that ends in thirteen 'f' has the cohort value 1
\* and is not sampled
C7_Witness ==
  /\ GeneralPath
  /\ Cohort(CallDigest).num = Cohort(CallDigest).den
  /\ result = F

----------------------------------------------------------------------------
(* The order of evaluation *)

SamplingGates ==
  { "isLastAccessTimeEnabledForUser", "isSigninConfirmationEnabledForUser",
    "isSigninUnblockEnabledForUser" }

\* the deterministic overrides of each function that uses the sampler
Overrides(fn) ==
  CASE fn = "isLastAccessTimeEnabledForUser" ->
         { "enabled", "enabledEmailAddresses.test" }
    [] fn = "isSigninConfirmationEnabledForUser" ->
         { "enabled", "isSuspiciousRequest", "forcedEmailAddresses.test",
           "supportedClients.indexOf" }
    [] fn = "isSigninUnblockEnabledForUser" ->
         { "enabled", "forcedEmailAddresses.test", "allowedEmailAddresses.test",
           "supportedClients.indexOf" }
    [] OTHER -> {}

\* where in the trace the sampler was invoked, and where an override was evaluated
SamplerAt == { i \in 1..Len(trace) : trace[i].op = "isSampledUser" }
EvaluatedAt(op) == { i \in 1..Len(trace) : trace[i].op = op }

\* what an override yields, from the configuration and the arguments alone
OverrideValue(fn, op) ==
  LET c == CASE fn = "isLastAccessTimeEnabledForUser" -> config.lastAccessTimeUpdates
             [] fn = "isSigninConfirmationEnabledForUser" -> config.signinConfirmation
             [] OTHER -> config.signinUnblock
  IN  CASE op = "enabled" -> Bool(c.enabled)
        [] op = "isSuspiciousRequest" -> Bool(call.request.app.isSuspiciousRequest)
        [] op = "enabledEmailAddresses.test" ->
             IF Configured(c.enabledEmailAddresses)
             THEN Bool(Matches(c.enabledEmailAddresses, call.email)) ELSE TypeError
        [] op = "forcedEmailAddresses.test" ->
             IF Configured(c.forcedEmailAddresses)
             THEN Bool(Matches(c.forcedEmailAddresses, call.email))
             ELSE IF fn = "isSigninUnblockEnabledForUser" THEN Undefined ELSE TypeError
        [] op = "allowedEmailAddresses.test" ->
             IF Configured(c.allowedEmailAddresses)
             THEN Bool(Matches(c.allowedEmailAddresses, call.email)) ELSE TypeError
        [] OTHER -> Bool(Supported(c.supportedClients, ClientContext(call.request)))

OverridesIndependent ==
  \A i \in 1..Len(trace) :
    trace[i].op \in Overrides(call.fn) => trace[i].out = OverrideValue(call.fn, trace[i].op)

\* C8 as stated: in each function that uses the sampler, the sampler is
\* invoked only after every deterministic override of that function has been
\* evaluated, and the outcome of no override depends on the sampler's result.
C8_SamplerLast ==
  call.fn \in SamplingGates =>
    /\ \A i \in SamplerAt : \A op \in Overrides(call.fn) :
         \E j \in EvaluatedAt(op) : j < i
    /\ OverridesIndependent

\* C8 as amended: in isSigninConfirmationEnabledForUser and
\* isSigninUnblockEnabledForUser the sampler is invoked only after every
\* deterministic override of the function has been evaluated; in
\* isLastAccessTimeEnabledForUser it is invoked after the enabled flag and
\* before the email pattern, which is tested only when the sampler says no;
\* in all three the outcome of no override depends on the sampler's result.
C8_SamplerLastButLastAccess ==
  call.fn \in SamplingGates =>
    /\ call.fn # "isLastAccessTimeEnabledForUser" =>
         \A i \in SamplerAt : \A op \in Overrides(call.fn) :
           \E j \in EvaluatedAt(op) : j < i
    /\ call.fn = "isLastAccessTimeEnabledForUser" =>
         /\ \A i \in SamplerAt : \E j \in EvaluatedAt("enabled") : j < i
         /\ \A j \in EvaluatedAt("enabledEmailAddresses.test") :
              \E i \in SamplerAt : i < j /\ trace[i].out = F
    /\ OverridesIndependent

\* C8, its case: sign-in confirmation reaches the sampler, which hashes, after
\* its four overrides
C8_Witness ==
  /\ call.fn = "isSigninConfirmationEnabledForUser"
  /\ SamplerAt # {}
  /\ HashCalls # {}
  /\ \A op \in Overrides(call.fn) : EvaluatedAt(op) # {}

----------------------------------------------------------------------------
\* C9: isLastAccessTimeEnabledForUser returns false when the feature is
\* disabled, whatever the uid and email; when enabled it returns true if and
\* only if isSampledUser(sampleRate, uid, 'lastAccessTimeUpdates') is true or
\* the email matches the enabled-email pattern.
C9_LastAccessEither ==
  call.fn = "isLastAccessTimeEnabledForUser" =>
    LET c == config.lastAccessTimeUpdates
        sampled == isSampledUser(c.sampleRate, call.uid, "lastAccessTimeUpdates").result = T
    IN  /\ ~c.enabled => result = F
        /\ c.enabled /\ Configured(c.enabledEmailAddresses) =>
             result = Bool(sampled \/ Matches(c.enabledEmailAddresses, call.email))

\* C9, its case: the email pattern alone enables the feature for a user the
\* sampler leaves out
C9_Witness ==
  /\ call.fn = "isLastAccessTimeEnabledForUser"
  /\ config.lastAccessTimeUpdates.enabled
  /\ isSampledUser(config.lastAccessTimeUpdates.sampleRate, call.uid,
                   "lastAccessTimeUpdates").result = F
  /\ Matches(config.lastAccessTimeUpdates.enabledEmailAddresses, call.email)
  /\ result = T

----------------------------------------------------------------------------
(* Patterns that are not configured *)

\* what each chain produces when an absent pattern never matches
NeverMatchResult ==
  CASE call.fn = "isLastAccessTimeEnabledForUser" ->
         LET c == config.lastAccessTimeUpdates
         IN  IF ~c.enabled THEN F
             ELSE Bool(isSampledUser(c.sampleRate, call.uid, "lastAccessTimeUpdates").result = T
                       \/ Matches(c.enabledEmailAddresses, call.email))
    [] call.fn = "isSigninConfirmationEnabledForUser" ->
         LET c == config.signinConfirmation
         IN  IF ~c.enabled THEN F
             ELSE IF call.request.app.isSuspiciousRequest THEN T
             ELSE IF Matches(c.forcedEmailAddresses, call.email) THEN T
             ELSE IF ~Supported(c.supportedClients, ClientContext(call.request)) THEN F
             ELSE isSampledUser(c.sample_rate, call.uid, "signinConfirmation").result
    [] call.fn = "isSigninUnblockEnabledForUser" ->
         LET c == config.signinUnblock
         IN  IF ~c.enabled THEN F
             ELSE IF Matches(c.forcedEmailAddresses, call.email) THEN T
             ELSE IF Matches(c.allowedEmailAddresses, call.email) THEN T
             ELSE IF ~Supported(c.supportedClients, ClientContext(call.request)) THEN F
             ELSE isSampledUser(c.sampleRate, call.uid, "signinUnblock").result
    [] OTHER ->
         IF config.signinConfirmation.enabled
              /\ Matches(config.signinConfirmation.forcedEmailAddresses, call.email)
         THEN F
         ELSE Bool(BypassConditions(config, call.verified, call.recency))

\* a pattern the last call's function reads is not configured
PatternAbsent ==
  \/ /\ call.fn = "isLastAccessTimeEnabledForUser"
     /\ ~Configured(config.lastAccessTimeUpdates.enabledEmailAddresses)
  \/ /\ call.fn \in { "isSigninConfirmationEnabledForUser", "canBypassSiginConfirmation" }
     /\ ~Configured(config.signinConfirmation.forcedEmailAddresses)
  \/ /\ call.fn = "isSigninUnblockEnabledForUser"
     /\ \/ ~Configured(config.signinUnblock.forcedEmailAddresses)
        \/ ~Configured(config.signinUnblock.allowedEmailAddresses)

\* C10 as stated: in every decision function, an email pattern that is not
\* configured is treated as a pattern that never matches: the call does not
\* fail and returns the boolean that the remaining steps of the chain
\* produce.
C10_AbsentPatternNeverMatches ==
  PatternAbsent => result # TypeError /\ result = NeverMatchResult

\* C10 as amended: in isSigninUnblockEnabledForUser, a forced-email pattern
\* that is not configured is treated as a pattern that never matches: with
\* the allowed-email pattern configured, the call does not fail and returns
\* the boolean that the remaining steps of the chain produce.
C10_AbsentUnblockForcedNeverMatches ==
  /\ call.fn = "isSigninUnblockEnabledForUser"
  /\ ~Configured(config.signinUnblock.forcedEmailAddresses)
  /\ Configured(config.signinUnblock.allowedEmailAddresses)
  => result \in {T, F} /\ result = NeverMatchResult

\* C10, its case: without forced addresses, sign-in unblock goes on to the
\* allow-list, the client check and the sampler, which samples the user
C10_Witness ==
  /\ call.fn = "isSigninUnblockEnabledForUser"
  /\ config.signinUnblock.enabled
  /\ ~Configured(config.signinUnblock.forcedEmailAddresses)
  /\ Configured(config.signinUnblock.allowedEmailAddresses)
  /\ SamplerAt # {}
  /\ result = T

----------------------------------------------------------------------------
(* Evaluations share nothing *)

\* what a call returns in the current state of the module
Evaluate(c) ==
  CASE c.fn = "isSampledUser" -> isSampledUser(c.sampleRate, c.uid, c.key).result
    [] c.fn = "isLastAccessTimeEnabledForUser" ->
         isLastAccessTimeEnabledForUser(c.uid, c.email).result
    [] c.fn = "isSigninConfirmationEnabledForUser" ->
         isSigninConfirmationEnabledForUser(c.uid, c.email, c.request).result
    [] c.fn = "isSigninUnblockEnabledForUser" ->
         isSigninUnblockEnabledForUser(c.uid, c.email, c.request).result
    [] OTHER -> canBypassSiginConfirmation(c.email, c.verified, c.recency).result

\* C11: no call of an exported function changes the gate configuration or
\* any other state that calls share (the digest function); a call returns
\* what its arguments evaluate to in the state it started from, and
\* evaluating it again in the state it left behind gives the same result: so,
\* in any order and number of evaluations, each one returns what it returns
\* when run alone.
C11_NothingShared ==
  /\ [][ /\ config' = config
         /\ sha1' = sha1
         /\ call' # NoCall => result' = Evaluate(call') ]_vars
  /\ [](call # NoCall => result = Evaluate(call))

\* C11, its case: an evaluation that went through the sampler and crypto has
\* returned, and the module is ready for the next one
C11_Witness ==
  /\ call.fn = "isSigninUnblockEnabledForUser"
  /\ HashCalls # {}
  /\ result = Evaluate(call)
  /\ result = T

----------------------------------------------------------------------------
(* One digest computation *)

\* the hex text of bytes: two characters a byte, high digit first
HexOf(bytes) ==
  [ i \in 1..(2 * Len(bytes)) |->
      IF i % 2 = 1 THEN bytes[(i + 1) \div 2] \div 16 ELSE bytes[i \div 2] % 16 ]

\* the identity key a call hashes: the hex text of a Buffer, a string as it is
IdentityKey(uid) == IF uid.isBuffer THEN HexOf(uid.bytes) ELSE uid.text

StepsOf(op) == { i \in 1..Len(trace) : trace[i].op = op }

\* C12: on the general path one isSampledUser call performs exactly one
\* digest computation, in this order: create one SHA-1 hash, update it with
\* the identity key, update it with the feature key, take the hex digest
\* once. A Buffer uid is converted to its hex text once before the first
\* update and a string uid is passed unchanged, so a Buffer uid and its hex
\* string give the same result; no call of any exported function performs
\* more than one digest computation.
C12_OneDigest ==
  /\ GeneralPath =>
       /\ Len(trace) = 4
       /\ trace[1].op = "createHash" /\ trace[1].key = "sha1"
       /\ trace[2].op = "update" /\ trace[2].text = IdentityKey(call.uid) /\ trace[2].key = ""
       /\ trace[3].op = "update" /\ trace[3].key = call.key /\ trace[3].text = <<>>
       /\ trace[4].op = "digest" /\ trace[4].key = "hex"
       /\ call.uid.isBuffer =>
            result = isSampledUser(call.sampleRate, StringUid(HexOf(call.uid.bytes)),
                                   call.key).result
  /\ Cardinality(StepsOf("createHash")) <= 1
  /\ Cardinality(StepsOf("digest")) <= 1
  /\ Cardinality(StepsOf("update")) <= 2

\* C12, its case: a Buffer uid is hashed as its hex text, once, and the user
\* is sampled
C12_Witness ==
  /\ GeneralPath
  /\ call.uid.isBuffer
  /\ Len(trace) = 4
  /\ trace[2].text = HexOf(call.uid.bytes)
  /\ Len(trace[2].text) = 2 * Len(call.uid.bytes)
  /\ StepsOf("digest") = {4}
  /\ result = T

====
